---- MODULE Spec2Model ----
(***************************************************************************)
(* brickDash phase 4 (src/brickDash/phase4/brickDash_phase4.py).           *)
(*                                                                         *)
(* Two threads of control share a BrickDashApp object:                     *)
(*   - the logging thread runs logging_loop: fetch, reconcile the raw      *)
(*     counter, append to the plot buffers under data_lock, append a CSV   *)
(*     row when the raw value changed, wait for the poll interval;         *)
(*   - the Tk main thread runs the Matplotlib animation tick               *)
(*     (update_plots), the window-close handler and the close polling.     *)
(* Time is counted in minutes since midnight of the day the program was    *)
(* started; the poll interval is one minute.                               *)
(***************************************************************************)
EXTENDS Integers, Sequences, FiniteSets, TLC

\* ---------------------------------------------------------------- bounds
\* raw readings of the PLC are drawn from 0..MaxRaw
MaxRaw == 2
\* the logging thread makes at most MaxPolls fetches
MaxPolls == 3
\* the minute of day 0 at which the program is started
StartClock == 3

\* ------------------------------------------------------- program constants
POLL_INTERVAL_SECONDS == 60
MAX_POINTS == 60
\* the [-10:] slices of update_plots
MAX_BARS == 10

MinutesPerDay == 24 * 60
\* the time one stop_event.wait that times out may take, in minutes: the
\* poll interval, or a day when the machine slept in between
WaitSteps == {POLL_INTERVAL_SECONDS \div 60, MinutesPerDay}

\* Python's None / a present value
None == <<>>
Some(v) == <<v>>

VARIABLES
    \* ---- BrickDashApp fields
    previous_logged_bricks, \* None or Some(raw)
    timestamps,             \* list of "%H:%M:%S" strings, as <<hour, minute>>
    bricks_cut_values,      \* list of adjusted counts
    bricks_cut_per_hour,    \* list of rate samples
    bricks_per_5min,        \* dict in insertion order: seq of [key, vals]
    previous_raw,           \* None or Some(raw)
    offset,
    adjusted_bricks,
    reset_count,
    stop_event,             \* threading.Event flag
    data_lock,              \* "free", "logger" or "gui"
    ani_running,            \* the animation's event source is started
    status,                 \* message last handed to _set_status
    \* ---- the world outside the object
    clock,                  \* wall clock, minutes since midnight of day 0
    response,               \* what the device answered to the last request
    csv_day,                \* the day in the name of self.csv_path
    file_existed,           \* init_log_file's local file_exists
    csv,                    \* rows of the file at csv_path
    console,                \* lines printed by logging_loop
    root_destroyed,         \* root.destroy() has run
    close_poll_pending,     \* queued root.after(50, _poll_logger_and_close) timers
    \* ---- logging thread
    pc_l, raw, now, event, polls,
    \* ---- Tk main thread
    pc_g, y1, y2, bar_labels, bar_data

reconcilerVars == <<previous_raw, offset, adjusted_bricks, reset_count>>
storeVars == <<timestamps, bricks_cut_values, bricks_cut_per_hour, bricks_per_5min>>
fileVars == <<csv_day, file_existed, csv>>
loggerLocals == <<raw, now, event>>
guiLocals == <<y1, y2, bar_labels, bar_data>>
shutdownVars == <<ani_running, root_destroyed, close_poll_pending>>

vars == <<previous_logged_bricks, timestamps, bricks_cut_values,
          bricks_cut_per_hour, bricks_per_5min, previous_raw, offset,
          adjusted_bricks, reset_count, stop_event, data_lock, ani_running,
          status, clock, response, csv_day, file_existed, csv, console,
          root_destroyed, close_poll_pending, pc_l, raw, now, event,
          polls, pc_g, y1, y2, bar_labels, bar_data>>

\* ------------------------------------------------------------ pure helpers
Max(a, b) == IF a >= b THEN a ELSE b

\* s[-n:]
LastN(s, n) == SubSeq(s, Max(1, Len(s) - n + 1), Len(s))

\* datetime fields of a clock value
DayOf(t) == t \div MinutesPerDay
HourOf(t) == (t % MinutesPerDay) \div 60
MinuteOf(t) == t % 60

\* now.strftime("%H:%M:%S"): the day is not part of the string
TimeStr(t) == <<HourOf(t), MinuteOf(t)>>
\* now.strftime("%Y-%m-%d %H:%M:%S")
DateTimeStr(t) == <<DayOf(t), HourOf(t), MinuteOf(t)>>
\* f"{now.hour:02d}:{minute:02d}" with minute floored to a multiple of 5
BucketLabel(t) == <<HourOf(t), MinuteOf(t) - (MinuteOf(t) % 5)>>

\* the header row (each cell under the column it names) and the rows an
\* earlier run of the same day left behind
Header == [timestamp |-> "timestamp", raw |-> "raw_bricks",
           adjusted |-> "adjusted_bricks", event |-> "event"]
PriorRow == [timestamp |-> DateTimeStr(0), raw |-> 0, adjusted |-> 0, event |-> "NORMAL"]
PriorLog == <<Header, PriorRow>>

\* what is at csv_path before the program is started for the first time
FileBefore(existed) == IF existed THEN PriorLog ELSE <<>>

\* init_log_file writing the header on every start
init_log_file_always_header(existed, content) == Append(content, Header)

\* init_log_file: the file is opened for append, the header goes in only
\* when the file did not exist
init_log_file(existed, content) == IF existed THEN content ELSE Append(content, Header)

\* the device's answers: a page with a counter, or anything fetch_data
\* cannot turn into an integer (timeout, HTTP error, no <h1>, not a number)
Responses == {[ok |-> TRUE, value |-> v] : v \in 0..MaxRaw}
                 \cup {[ok |-> FALSE, value |-> 0]}

\* fetch_data answering 0 when the request or the parse fails
fetch_data_zero_on_error(resp) == IF resp.ok THEN Some(resp.value) ELSE Some(0)

\* fetch_data's return value
fetch_data(resp) == IF resp.ok THEN Some(resp.value) ELSE None

\* _set_status: root.after raises once the root is destroyed, and the
\* exception is swallowed
SetStatus(msg) == IF root_destroyed THEN status ELSE msg

\* the test of line 138 written with <=
IsReset_or_equal(prev, r) == prev /= None /\ r <= prev[1]

\* the test of line 138
IsReset(prev, r) == prev /= None /\ r < prev[1]

\* the reset branch banking the new raw value instead of the previous one
reconcile_banks_new(prev, off, resets, r) ==
    IF prev /= None /\ r < prev[1]
    THEN [reset_count |-> resets + 1, offset |-> off + r,
          adjusted |-> off + r + r, previous_raw |-> Some(r),
          event |-> "RESET_DETECTED"]
    ELSE [reset_count |-> resets, offset |-> off,
          adjusted |-> off + r, previous_raw |-> Some(r),
          event |-> "NORMAL"]

\* previous_raw assigned in the normal branch only
reconcile_keeps_previous(prev, off, resets, r) ==
    IF prev /= None /\ r < prev[1]
    THEN [reset_count |-> resets + 1, offset |-> off + prev[1],
          adjusted |-> off + prev[1] + r, previous_raw |-> prev,
          event |-> "RESET_DETECTED"]
    ELSE [reset_count |-> resets, offset |-> off,
          adjusted |-> off + r, previous_raw |-> Some(r),
          event |-> "NORMAL"]

\* the previous raw value banked on every reading after the first
reconcile_banks_always(prev, off, resets, r) ==
    IF prev /= None
    THEN [reset_count |-> resets, offset |-> off + prev[1],
          adjusted |-> off + prev[1] + r, previous_raw |-> Some(r),
          event |-> "NORMAL"]
    ELSE [reset_count |-> resets, offset |-> off,
          adjusted |-> off + r, previous_raw |-> Some(r),
          event |-> "NORMAL"]

\* the reset counted but nothing banked: the adjusted count is the raw one
reconcile_no_offset(prev, off, resets, r) ==
    IF prev /= None /\ r < prev[1]
    THEN [reset_count |-> resets + 1, offset |-> off,
          adjusted |-> off + r, previous_raw |-> Some(r),
          event |-> "RESET_DETECTED"]
    ELSE [reset_count |-> resets, offset |-> off,
          adjusted |-> off + r, previous_raw |-> Some(r),
          event |-> "NORMAL"]

\* lines 136-154 on the reconciler fields
reconcile(prev, off, resets, r) ==
    IF IsReset(prev, r)
    THEN [reset_count |-> resets + 1, offset |-> off + prev[1],
          adjusted |-> off + prev[1] + r, previous_raw |-> Some(r),
          event |-> "RESET_DETECTED"]
    ELSE [reset_count |-> resets, offset |-> off,
          adjusted |-> off + r, previous_raw |-> Some(r),
          event |-> "NORMAL"]

\* the rate taken from the first value of the session instead of the last
RateSample_from_first(vals) ==
    IF Len(vals) >= 2 THEN (vals[Len(vals)] - vals[1]) * 60 ELSE 0

\* lines 168-175, after the new value is in the list
RateSample(vals) ==
    IF Len(vals) >= 2 THEN (vals[Len(vals)] - vals[Len(vals) - 1]) * 60 ELSE 0

\* a bucket made for its first reading and left alone afterwards
BucketPut_new_only(d, k, v) ==
    IF \E i \in 1..Len(d) : d[i].key = k
    THEN d
    ELSE Append(d, [key |-> k, vals |-> <<v>>])

\* the bucket's list assigned anew on every reading
BucketPut_replaces(d, k, v) ==
    IF \E i \in 1..Len(d) : d[i].key = k
    THEN [d EXCEPT ![CHOOSE i \in 1..Len(d) : d[i].key = k].vals = <<v>>]
    ELSE Append(d, [key |-> k, vals |-> <<v>>])

\* lines 180-182 on the dict
HasKey(d, k) == \E i \in 1..Len(d) : d[i].key = k
KeyIndex(d, k) == CHOOSE i \in 1..Len(d) : d[i].key = k
BucketPut(d, k, v) ==
    IF HasKey(d, k)
    THEN [d EXCEPT ![KeyIndex(d, k)].vals = Append(@, v)]
    ELSE Append(d, [key |-> k, vals |-> <<v>>])

\* a row only when the count has grown
ShouldLog_only_increase(logged, r) == IF logged = None THEN TRUE ELSE r > logged[1]

\* a row for every reading
ShouldLog_always(logged, r) == TRUE

\* the test of line 185
ShouldLog(logged, r) == logged /= Some(r)

\* the thread taken for finished without asking it
LoggerAlive_unchecked == FALSE

\* the thread object's is_alive()
LoggerAlive == pc_l \notin {"done", "crashed"}

\* ------------------------------------------------------------------- Init
Init ==
    /\ previous_logged_bricks = None
    /\ timestamps = <<>>
    /\ bricks_cut_values = <<>>
    /\ bricks_cut_per_hour = <<>>
    /\ bricks_per_5min = <<>>
    /\ previous_raw = None
    /\ offset = 0
    /\ adjusted_bricks = 0
    /\ reset_count = 0
    /\ stop_event = FALSE
    /\ data_lock = "free"
    /\ ani_running = TRUE
    /\ status = <<"waiting">>
    /\ clock = StartClock
    /\ response = [ok |-> FALSE, value |-> 0]
    /\ csv_day = DayOf(StartClock)
    /\ file_existed \in BOOLEAN
    /\ csv = init_log_file(file_existed, FileBefore(file_existed))
    /\ console = <<>>
    /\ root_destroyed = FALSE
    /\ close_poll_pending = 0
    /\ pc_l = "check"
    /\ raw = None
    /\ now = StartClock
    /\ event = "NORMAL"
    /\ polls = 0
    /\ pc_g = "idle"
    /\ y1 = <<>>
    /\ y2 = <<>>
    /\ bar_labels = <<>>
    /\ bar_data = <<>>

\* ---------------------------------------------------------- logging thread
\* the loop test not looking at the event ("while True")
LoopEnter_unconditional ==
    /\ pc_l = "check"
    /\ polls < MaxPolls
    /\ pc_l' = "fetch"
    /\ UNCHANGED <<previous_logged_bricks, reconcilerVars, storeVars, stop_event,
                   data_lock, status, clock, response, fileVars, console,
                   shutdownVars, loggerLocals, polls, pc_g, guiLocals>>

\* line 130: the loop test finds the event clear and enters an iteration
LoopEnter ==
    /\ pc_l = "check"
    /\ ~stop_event
    /\ polls < MaxPolls
    /\ pc_l' = "fetch"
    /\ UNCHANGED <<previous_logged_bricks, reconcilerVars, storeVars, stop_event,
                   data_lock, status, clock, response, fileVars, console,
                   shutdownVars, loggerLocals, polls, pc_g, guiLocals>>

\* line 130: the loop test finds the event set and leaves the loop
LoopExit ==
    /\ pc_l = "check"
    /\ stop_event
    /\ pc_l' = "exit"
    /\ UNCHANGED <<previous_logged_bricks, reconcilerVars, storeVars, stop_event,
                   data_lock, status, clock, response, fileVars, console,
                   shutdownVars, loggerLocals, polls, pc_g, guiLocals>>

\* lines 131-132 with fetch_data (110-123): one request, its answer parsed;
\* a failure reports in the status bar and the iteration goes to the wait
Fetch ==
    /\ pc_l = "fetch"
    /\ \E resp \in Responses :
        /\ response' = resp
        /\ raw' = fetch_data(resp)
        /\ status' = IF fetch_data(resp) = None THEN SetStatus(<<"connection_error">>)
                     ELSE status
        /\ pc_l' = IF fetch_data(resp) /= None THEN "reconcile" ELSE "wait"
    /\ polls' = polls + 1
    /\ UNCHANGED <<previous_logged_bricks, reconcilerVars, storeVars, stop_event,
                   data_lock, clock, fileVars, console, shutdownVars,
                   now, event, pc_g, guiLocals>>

\* lines 133-159: read the clock, reconcile, report, print
Reconcile ==
    /\ pc_l = "reconcile"
    /\ LET r == reconcile(previous_raw, offset, reset_count, raw[1]) IN
        /\ now' = clock
        /\ event' = r.event
        /\ reset_count' = r.reset_count
        /\ offset' = r.offset
        /\ adjusted_bricks' = r.adjusted
        /\ previous_raw' = r.previous_raw
        /\ status' = IF r.event = "RESET_DETECTED"
                     THEN SetStatus(<<"reset", r.reset_count, TimeStr(clock)>>)
                     ELSE SetStatus(<<"last_update", TimeStr(clock), raw[1]>>)
        /\ console' = Append(console, [time |-> TimeStr(clock), raw |-> raw[1],
                                       adjusted |-> r.adjusted, event |-> r.event])
    /\ pc_l' = "acquire"
    /\ UNCHANGED <<previous_logged_bricks, storeVars, stop_event, data_lock, clock,
                   response, fileVars, shutdownVars, raw, polls, pc_g,
                   guiLocals>>

\* the blocks entered without looking at the lock
LockFree_ignored(lock) == TRUE

\* "with self.data_lock" may enter: threading.Lock is free
LockFree(lock) == lock = "free"

\* line 162: enter the critical section
LoggerAcquire ==
    /\ pc_l = "acquire"
    /\ LockFree(data_lock)
    /\ data_lock' = "logger"
    /\ pc_l' = "append_series"
    /\ UNCHANGED <<previous_logged_bricks, reconcilerVars, storeVars, stop_event,
                   status, clock, response, fileVars, console,
                   shutdownVars, loggerLocals, polls, pc_g, guiLocals>>

\* lines 164-165
AppendSeries ==
    /\ pc_l = "append_series"
    /\ timestamps' = Append(timestamps, TimeStr(now))
    /\ bricks_cut_values' = Append(bricks_cut_values, adjusted_bricks)
    /\ pc_l' = "append_rate"
    /\ UNCHANGED <<previous_logged_bricks, reconcilerVars, bricks_cut_per_hour,
                   bricks_per_5min, stop_event, data_lock, status, clock, response,
                   fileVars, console, shutdownVars, loggerLocals, polls,
                   pc_g, guiLocals>>

\* lines 167-175
AppendRate ==
    /\ pc_l = "append_rate"
    /\ bricks_cut_per_hour' = Append(bricks_cut_per_hour, RateSample(bricks_cut_values))
    /\ pc_l' = "append_bucket"
    /\ UNCHANGED <<previous_logged_bricks, reconcilerVars, timestamps,
                   bricks_cut_values, bricks_per_5min, stop_event, data_lock, status,
                   clock, response, fileVars, console, shutdownVars,
                   loggerLocals, polls, pc_g, guiLocals>>

\* lines 177-182
AppendBucket ==
    /\ pc_l = "append_bucket"
    /\ bricks_per_5min' = BucketPut(bricks_per_5min, BucketLabel(now), adjusted_bricks)
    /\ pc_l' = "release"
    /\ UNCHANGED <<previous_logged_bricks, reconcilerVars, timestamps,
                   bricks_cut_values, bricks_cut_per_hour, stop_event, data_lock,
                   status, clock, response, fileVars, console, shutdownVars,
                   loggerLocals, polls, pc_g, guiLocals>>

\* the end of the with block of line 162
LoggerRelease ==
    /\ pc_l = "release"
    /\ data_lock' = "free"
    /\ pc_l' = "log"
    /\ UNCHANGED <<previous_logged_bricks, reconcilerVars, storeVars, stop_event,
                   status, clock, response, fileVars, console,
                   shutdownVars, loggerLocals, polls, pc_g, guiLocals>>

\* lines 184-196, the raw value is the one last logged: nothing is written
LogSkip ==
    /\ pc_l = "log"
    /\ ~ShouldLog(previous_logged_bricks, raw[1])
    /\ pc_l' = "wait"
    /\ UNCHANGED <<previous_logged_bricks, reconcilerVars, storeVars, stop_event,
                   data_lock, status, clock, response, fileVars, console,
                   shutdownVars, loggerLocals, polls, pc_g, guiLocals>>

\* the row written with the raw count in the adjusted column
LogWrite_raw_for_adjusted ==
    /\ pc_l = "log"
    /\ ShouldLog(previous_logged_bricks, raw[1])
    /\ csv' = Append(csv, [timestamp |-> DateTimeStr(now), raw |-> raw[1],
                           adjusted |-> raw[1], event |-> event])
    /\ previous_logged_bricks' = raw
    /\ pc_l' = "wait"
    /\ UNCHANGED <<reconcilerVars, storeVars, stop_event, data_lock, status, clock,
                   response, csv_day, file_existed, console, shutdownVars,
                   loggerLocals, polls, pc_g, guiLocals>>

\* lines 184-196, the raw value changed and the row is appended
LogWrite ==
    /\ pc_l = "log"
    /\ ShouldLog(previous_logged_bricks, raw[1])
    /\ csv' = Append(csv, [timestamp |-> DateTimeStr(now), raw |-> raw[1],
                           adjusted |-> adjusted_bricks, event |-> event])
    /\ previous_logged_bricks' = raw
    /\ pc_l' = "wait"
    /\ UNCHANGED <<reconcilerVars, storeVars, stop_event, data_lock, status, clock,
                   response, csv_day, file_existed, console, shutdownVars,
                   loggerLocals, polls, pc_g, guiLocals>>

\* lines 186-195, open() or writerow() raises OSError: nothing in
\* logging_loop catches it, the exception leaves the thread's target and
\* the thread ends
LogWriteFails ==
    /\ pc_l = "log"
    /\ ShouldLog(previous_logged_bricks, raw[1])
    /\ pc_l' = "crashed"
    /\ UNCHANGED <<previous_logged_bricks, reconcilerVars, storeVars, stop_event,
                   data_lock, status, clock, response, fileVars, console,
                   shutdownVars, loggerLocals, polls, pc_g, guiLocals>>

\* line 199: the wait times out with the event clear
WaitTimeout ==
    /\ pc_l = "wait"
    /\ ~stop_event
    /\ \E d \in WaitSteps : clock' = clock + d
    /\ pc_l' = "check"
    /\ UNCHANGED <<previous_logged_bricks, reconcilerVars, storeVars, stop_event,
                   data_lock, status, response, fileVars, console,
                   shutdownVars, loggerLocals, polls, pc_g, guiLocals>>

\* lines 199-200: the wait returns True, break
WaitStopped ==
    /\ pc_l = "wait"
    /\ stop_event
    /\ pc_l' = "exit"
    /\ UNCHANGED <<previous_logged_bricks, reconcilerVars, storeVars, stop_event,
                   data_lock, status, clock, response, fileVars, console,
                   shutdownVars, loggerLocals, polls, pc_g, guiLocals>>

\* line 203, then logging_loop returns
LoggerExit ==
    /\ pc_l = "exit"
    /\ status' = SetStatus(<<"logger_stopped">>)
    /\ pc_l' = "done"
    /\ UNCHANGED <<previous_logged_bricks, reconcilerVars, storeVars, stop_event,
                   data_lock, clock, response, fileVars, console,
                   shutdownVars, loggerLocals, polls, pc_g, guiLocals>>

\* ----------------------------------------------------------- Tk main thread
\* bar_data holds the dict's list objects themselves, not copies (line 331),
\* and lines 345-348 read them after the lock is released: a list object is
\* named by its position in the dict, which never changes because no key is
\* ever removed
Deref(ref) == bricks_per_5min[ref].vals

\* the animation timer calls update_plots (line 314), which goes for the lock
PlotTick ==
    /\ pc_g = "idle"
    /\ ani_running
    /\ ~root_destroyed
    /\ pc_g' = "plot_acquire"
    /\ UNCHANGED <<previous_logged_bricks, reconcilerVars, storeVars, stop_event,
                   data_lock, status, clock, response, fileVars, console,
                   shutdownVars, loggerLocals, polls, pc_l, guiLocals>>

\* line 315: enter the critical section
PlotAcquire ==
    /\ pc_g = "plot_acquire"
    /\ LockFree(data_lock)
    /\ data_lock' = "gui"
    /\ pc_g' = "plot_check"
    /\ UNCHANGED <<previous_logged_bricks, reconcilerVars, storeVars, stop_event,
                   status, clock, response, fileVars, console,
                   shutdownVars, loggerLocals, polls, pc_l, guiLocals>>

\* lines 316-317: nothing stored yet, return; the with block releases
PlotReturnEmpty ==
    /\ pc_g = "plot_check"
    /\ Len(bricks_cut_values) = 0
    /\ data_lock' = "free"
    /\ pc_g' = "idle"
    /\ UNCHANGED <<previous_logged_bricks, reconcilerVars, storeVars, stop_event,
                   status, clock, response, fileVars, console,
                   shutdownVars, loggerLocals, polls, pc_l, guiLocals>>

\* lines 316, 319-322
PlotCopyValues ==
    /\ pc_g = "plot_check"
    /\ Len(bricks_cut_values) /= 0
    /\ y1' = LastN(bricks_cut_values, MAX_POINTS)
    /\ pc_g' = "plot_hour"
    /\ UNCHANGED <<previous_logged_bricks, reconcilerVars, storeVars, stop_event,
                   data_lock, status, clock, response, fileVars, console,
                   shutdownVars, loggerLocals, polls, pc_l, y2, bar_labels, bar_data>>

\* lines 324-327
PlotCopyHour ==
    /\ pc_g = "plot_hour"
    /\ y2' = LastN(bricks_cut_per_hour, MAX_POINTS)
    /\ pc_g' = "plot_bars"
    /\ UNCHANGED <<previous_logged_bricks, reconcilerVars, storeVars, stop_event,
                   data_lock, status, clock, response, fileVars, console,
                   shutdownVars, loggerLocals, polls, pc_l, y1, bar_labels, bar_data>>

\* lines 329-331: the keys are copied, the values are the list objects
PlotCopyBars ==
    /\ pc_g = "plot_bars"
    /\ bar_labels' = LastN([i \in 1..Len(bricks_per_5min) |-> bricks_per_5min[i].key],
                           MAX_BARS)
    /\ bar_data' = LastN([i \in 1..Len(bricks_per_5min) |-> i], MAX_BARS)
    /\ pc_g' = "plot_release"
    /\ UNCHANGED <<previous_logged_bricks, reconcilerVars, storeVars, stop_event,
                   data_lock, status, clock, response, fileVars, console,
                   shutdownVars, loggerLocals, polls, pc_l, y1, y2>>

\* the end of the with block of line 315
PlotRelease ==
    /\ pc_g = "plot_release"
    /\ data_lock' = "free"
    /\ pc_g' = "draw"
    /\ UNCHANGED <<previous_logged_bricks, reconcilerVars, storeVars, stop_event,
                   status, clock, response, fileVars, console,
                   shutdownVars, loggerLocals, polls, pc_l, guiLocals>>

\* lines 333-362: draw from the copies and from the bucket lists (the figure
\* is Matplotlib's and is not kept here), then return: the locals are gone
PlotDraw ==
    /\ pc_g = "draw"
    /\ y1' = <<>>
    /\ y2' = <<>>
    /\ bar_labels' = <<>>
    /\ bar_data' = <<>>
    /\ pc_g' = "idle"
    /\ UNCHANGED <<previous_logged_bricks, reconcilerVars, storeVars, stop_event,
                   data_lock, status, clock, response, fileVars, console,
                   shutdownVars, loggerLocals, polls, pc_l>>

\* initiate_shutdown without the test of line 272
OnClose_unguarded ==
    /\ pc_g = "idle"
    /\ ~root_destroyed
    /\ status' = SetStatus(<<"shutting_down">>)
    /\ stop_event' = TRUE
    /\ pc_g' = "stop_animation"
    /\ UNCHANGED <<previous_logged_bricks, reconcilerVars, storeVars, data_lock,
                   clock, response, fileVars, console, shutdownVars,
                   loggerLocals, polls, pc_l, guiLocals>>

\* lines 307-310 and 272-276: the window is closed
OnClose ==
    /\ pc_g = "idle"
    /\ ~root_destroyed
    /\ status' = SetStatus(<<"shutting_down">>)
    /\ IF stop_event
       THEN UNCHANGED <<stop_event, pc_g>>
       ELSE stop_event' = TRUE /\ pc_g' = "stop_animation"
    /\ UNCHANGED <<previous_logged_bricks, reconcilerVars, storeVars, data_lock,
                   clock, response, fileVars, console, shutdownVars,
                   loggerLocals, polls, pc_l, guiLocals>>

\* lines 278-284
StopAnimation ==
    /\ pc_g = "stop_animation"
    /\ ani_running' = FALSE
    /\ pc_g' = "poll_logger"
    /\ UNCHANGED <<previous_logged_bricks, reconcilerVars, storeVars, stop_event,
                   data_lock, status, clock, response, fileVars, console,
                   root_destroyed, close_poll_pending, loggerLocals, polls, pc_l,
                   guiLocals>>

\* _poll_logger_and_close looking once and not setting its timer again
PollLoggerAndClose_once ==
    /\ \/ pc_g = "poll_logger"
       \/ pc_g = "idle" /\ close_poll_pending > 0 /\ ~root_destroyed
    /\ IF LoggerAlive
       THEN /\ close_poll_pending' = 0
            /\ pc_g' = "idle"
            /\ UNCHANGED root_destroyed
       ELSE /\ close_poll_pending' = 0
            /\ root_destroyed' = TRUE
            /\ pc_g' = "closed"
    /\ UNCHANGED <<previous_logged_bricks, reconcilerVars, storeVars, stop_event,
                   data_lock, status, clock, response, fileVars, console,
                   ani_running, loggerLocals, polls, pc_l, guiLocals>>

\* lines 289-305, called from initiate_shutdown (line 287) or by the timer
\* it set itself (line 297)
PollLoggerAndClose ==
    /\ \/ pc_g = "poll_logger"
       \/ pc_g = "idle" /\ close_poll_pending > 0 /\ ~root_destroyed
    /\ LET fired == IF pc_g = "idle" THEN 1 ELSE 0 IN
       IF LoggerAlive
       THEN /\ close_poll_pending' = close_poll_pending - fired + 1
            /\ pc_g' = "idle"
            /\ UNCHANGED root_destroyed
       ELSE \* root.destroy() deletes the timers that are still queued
            /\ close_poll_pending' = 0
            /\ root_destroyed' = TRUE
            /\ pc_g' = "closed"
    /\ UNCHANGED <<previous_logged_bricks, reconcilerVars, storeVars, stop_event,
                   data_lock, status, clock, response, fileVars, console,
                   ani_running, loggerLocals, polls, pc_l, guiLocals>>

\* ------------------------------------------------------------ specification
Next ==
    \/ LoopEnter \/ LoopExit \/ Fetch \/ Reconcile \/ LoggerAcquire
    \/ AppendSeries \/ AppendRate \/ AppendBucket \/ LoggerRelease
    \/ LogSkip \/ LogWrite \/ LogWriteFails \/ WaitTimeout \/ WaitStopped
    \/ LoggerExit
    \/ PlotTick \/ PlotAcquire \/ PlotReturnEmpty \/ PlotCopyValues
    \/ PlotCopyHour \/ PlotCopyBars \/ PlotRelease \/ PlotDraw
    \/ OnClose \/ StopAnimation \/ PollLoggerAndClose

Spec == Init /\ [][Next]_vars

\* the steps of the logging thread, which the interpreter keeps scheduling
\* and whose requests return (timeout=2, line 112)
LoggerStep ==
    \/ LoopEnter \/ LoopExit \/ Fetch \/ Reconcile \/ LoggerAcquire
    \/ AppendSeries \/ AppendRate \/ AppendBucket \/ LoggerRelease
    \/ LogSkip \/ LogWrite \/ LogWriteFails \/ WaitTimeout \/ WaitStopped
    \/ LoggerExit

\* the steps the Tk main loop takes by itself once a callback has begun or
\* a timer of its own is due; the animation tick and the user's close are
\* not forced
TkStep ==
    \/ PlotAcquire \/ PlotReturnEmpty \/ PlotCopyValues \/ PlotCopyHour
    \/ PlotCopyBars \/ PlotRelease \/ PlotDraw
    \/ StopAnimation \/ PollLoggerAndClose

\* mainloop has returned and the logging thread has ended: main (lines
\* 365-379) leaves through sys.exit(0)
ProcessExited == pc_g = "closed" /\ ~LoggerAlive

\* the program is started again: a new process with a new BrickDashApp; the
\* files stay, and the file of the day is found when the day is the same
Restart ==
    /\ ProcessExited
    /\ \E existed \in BOOLEAN :
          /\ DayOf(clock) = csv_day => existed
          /\ file_existed' = existed
          /\ csv' = init_log_file(existed, IF DayOf(clock) = csv_day THEN csv
                                           ELSE FileBefore(existed))
    /\ csv_day' = DayOf(clock)
    /\ previous_logged_bricks' = None
    /\ timestamps' = <<>>
    /\ bricks_cut_values' = <<>>
    /\ bricks_cut_per_hour' = <<>>
    /\ bricks_per_5min' = <<>>
    /\ previous_raw' = None
    /\ offset' = 0
    /\ adjusted_bricks' = 0
    /\ reset_count' = 0
    /\ stop_event' = FALSE
    /\ data_lock' = "free"
    /\ ani_running' = TRUE
    /\ status' = <<"waiting">>
    /\ console' = <<>>
    /\ root_destroyed' = FALSE
    /\ close_poll_pending' = 0
    /\ pc_l' = "check"
    /\ raw' = None
    /\ now' = clock
    /\ event' = "NORMAL"
    /\ pc_g' = "idle"
    /\ y1' = <<>>
    /\ y2' = <<>>
    /\ bar_labels' = <<>>
    /\ bar_data' = <<>>
    /\ UNCHANGED <<clock, response, polls>>

\* the program with its restarts; MaxPolls bounds the fetches of all runs
StartsNext == Next \/ Restart
StartsSpec == Init /\ [][StartsNext]_vars

\* ------------------------------------------------------- phase 2 plotter
\* phase2_plot.py is a program of its own with two module-level lists of the
\* same names; this specification runs it on the variables timestamps,
\* bricks_cut_values, response, clock and polls (the frames shown so far)
\* and leaves every other variable as Init set it.

\* FuncAnimation's interval in milliseconds and the length update keeps
PHASE2_INTERVAL_MS == 1000
PHASE2_WINDOW == 60

\* the frames of a run
MaxFrames == 62

\* the frames that pass in one minute of the clock
FramesPerMinute == 60000 \div PHASE2_INTERVAL_MS

\* what the device can answer to a frame: no answer, or a count that is not
\* below the last one plotted (the counter does not fall during the run)
Phase2Responses ==
    {r \in Responses :
        (r.ok /\ bricks_cut_values /= <<>>)
            => r.value >= bricks_cut_values[Len(bricks_cut_values)]}

\* pop() in place of pop(0)
PopOldest_drops_newest(ts, vals) ==
    IF Len(ts) > PHASE2_WINDOW
    THEN [timestamps |-> SubSeq(ts, 1, Len(ts) - 1),
          bricks_cut_values |-> SubSeq(vals, 1, Len(vals) - 1)]
    ELSE [timestamps |-> ts, bricks_cut_values |-> vals]

\* lines 52-54 of phase2_plot.py: the test reads timestamps, both lists pop
PopOldest(ts, vals) ==
    IF Len(ts) > PHASE2_WINDOW
    THEN [timestamps |-> Tail(ts), bricks_cut_values |-> Tail(vals)]
    ELSE [timestamps |-> ts, bricks_cut_values |-> vals]

\* update(frame), lines 46-64 of phase2_plot.py
update ==
    /\ polls < MaxFrames
    /\ \E resp \in Phase2Responses :
          /\ response' = resp
          /\ IF fetch_data(resp) /= None
             THEN LET kept == PopOldest(Append(timestamps, TimeStr(clock)),
                                        Append(bricks_cut_values, fetch_data(resp)[1]))
                  IN  /\ timestamps' = kept.timestamps
                      /\ bricks_cut_values' = kept.bricks_cut_values
             ELSE UNCHANGED <<timestamps, bricks_cut_values>>
    /\ polls' = polls + 1
    /\ clock' = IF (polls + 1) % FramesPerMinute = 0 THEN clock + 1 ELSE clock
    /\ UNCHANGED <<previous_logged_bricks, reconcilerVars, bricks_cut_per_hour,
                   bricks_per_5min, stop_event, data_lock, status, fileVars,
                   console, shutdownVars, pc_l, loggerLocals, pc_g, guiLocals>>

Phase2Init == Init /\ ~file_existed
Phase2Next == update
Phase2Spec == Phase2Init /\ [][Phase2Next]_vars

\* both threads keep running
FairSpec == Spec /\ WF_vars(LoggerStep) /\ WF_vars(TkStep)

\* ------------------------------------------------------------------ claims
\* the raw readings printed so far, one per successful fetch
ConsoleRaws == [i \in 1..Len(console) |-> console[i].raw]

\* the positions of a list at which the value is lower than the one before
Decreases(s) == {i \in 2..Len(s) : s[i] < s[i - 1]}

\* the sum of the values that immediately precede a decrease among s[1..n]
RECURSIVE Banked(_, _)
Banked(s, n) ==
    IF n < 2 THEN 0
    ELSE Banked(s, n - 1) + (IF s[n] < s[n - 1] THEN s[n - 1] ELSE 0)

\* a list with every run of equal neighbours reduced to one element
RECURSIVE Compress(_)
Compress(s) ==
    IF Len(s) <= 1 THEN s
    ELSE IF s[Len(s)] = s[Len(s) - 1] THEN Compress(SubSeq(s, 1, Len(s) - 1))
    ELSE Append(Compress(SubSeq(s, 1, Len(s) - 1)), s[Len(s)])

\* the rows the program appended to the file since its first start
SessionRows ==
    SubSeq(csv, Len(init_log_file(file_existed, FileBefore(file_existed))) + 1, Len(csv))
SessionRowRaws == [i \in 1..Len(SessionRows) |-> SessionRows[i].raw]

\* the positions of the logging thread
BetweenIterations == {"check", "fetch", "wait", "exit", "done"}
AfterReconcile == {"acquire", "append_series", "append_rate", "append_bucket",
                   "release", "log"}
LoggerCS == {"append_series", "append_rate", "append_bucket", "release"}
GuiCS == {"plot_check", "plot_hour", "plot_bars", "plot_release"}

\* C1: the adjusted values produced by the polling loop, in the order the
\* iterations produced them, never decrease, whatever the raw readings and
\* wherever fetches failed; adjusted_bricks is the last one produced.
C1_AdjustedNonDecreasing ==
    /\ \A i \in 1..(Len(console) - 1) : console[i].adjusted <= console[i + 1].adjusted
    /\ Len(console) > 0 => adjusted_bricks = console[Len(console)].adjusted
    /\ Len(console) = 0 => adjusted_bricks = 0

\* three readings, the second lower than the first, the count still growing
C1_Witness ==
    /\ Len(console) = 3
    /\ console[2].raw < console[1].raw
    /\ console[3].adjusted > console[1].adjusted

\* C2: before the first successful reading previous_raw is None and offset
\* and adjusted_bricks are 0; once a reading was reconciled adjusted_bricks
\* is offset + previous_raw, and after an iteration that read a raw value
\* previous_raw is that value.
C2_AdjustedIsOffsetPlusPreviousRaw ==
    /\ previous_raw = None => offset = 0 /\ adjusted_bricks = 0 /\ Len(console) = 0
    /\ previous_raw /= None => adjusted_bricks = offset + previous_raw[1]
    /\ Len(console) = 0 => previous_raw = None
    /\ (pc_l \in AfterReconcile \cup {"wait", "crashed"} /\ raw /= None)
           => previous_raw = raw

\* an iteration is complete after a reset was banked
C2_Witness ==
    /\ pc_l = "wait"
    /\ raw /= None
    /\ offset > 0
    /\ previous_raw = raw

\* the reconciler fields and the adjusted values after the readings s[1..n],
\* from the state of __init__ (lines 70-74)
RECURSIVE ReconcileAll(_, _)
ReconcileAll(s, n) ==
    IF n = 0
    THEN [previous_raw |-> None, offset |-> 0, reset_count |-> 0, adjusted |-> <<>>,
          events |-> <<>>]
    ELSE LET before == ReconcileAll(s, n - 1)
             r == reconcile(before.previous_raw, before.offset, before.reset_count, s[n])
         IN [previous_raw |-> r.previous_raw, offset |-> r.offset,
             reset_count |-> r.reset_count,
             adjusted |-> Append(before.adjusted, r.adjusted),
             events |-> Append(before.events, r.event)]

\* the readings of the example and what the reconciler makes of them
ExampleReadings == <<5, 10, 15, 2, 7>>
ExampleResult == ReconcileAll(ExampleReadings, Len(ExampleReadings))

\* C3: a reading's event is RESET_DETECTED exactly when it is lower than the
\* reading before it; reset_count is the number of such readings, offset the
\* sum of the readings that immediately preceded them, and every adjusted
\* value is the offset at that point plus the reading; the readings
\* 5, 10, 15, 2, 7 give offset 15 and the adjusted values 5, 10, 15, 17, 22.
C3_ResetExactlyOnDecrease ==
    /\ \A i \in 1..Len(console) :
          /\ console[i].event \in {"NORMAL", "RESET_DETECTED"}
          /\ console[i].event = "RESET_DETECTED" <=> i \in Decreases(ConsoleRaws)
          /\ console[i].adjusted = Banked(ConsoleRaws, i) + console[i].raw
    /\ reset_count = Cardinality(Decreases(ConsoleRaws))
    /\ offset = Banked(ConsoleRaws, Len(console))
    /\ ExampleResult.offset = 15
    /\ ExampleResult.reset_count = 1
    /\ ExampleResult.adjusted = <<5, 10, 15, 17, 22>>
    /\ ExampleResult.events = <<"NORMAL", "NORMAL", "NORMAL", "RESET_DETECTED", "NORMAL">>

\* a repeated reading followed by a decrease
C3_Witness ==
    /\ Len(console) = 3
    /\ console[2].raw = console[1].raw
    /\ console[3].raw < console[2].raw
    /\ console[3].event = "RESET_DETECTED"
    /\ offset = console[2].raw

\* C4: as long as the readings have not decreased, every adjusted value is
\* the raw value itself, offset and reset_count are 0 and every event is
\* NORMAL.
C4_NonDecreasingIsIdentity ==
    (\A i \in 1..(Len(console) - 1) : console[i].raw <= console[i + 1].raw)
        => /\ offset = 0
           /\ reset_count = 0
           /\ \A i \in 1..Len(console) :
                 console[i].adjusted = console[i].raw /\ console[i].event = "NORMAL"
           /\ pc_l \in BetweenIterations => bricks_cut_values = ConsoleRaws

\* three readings that rise
C4_Witness ==
    /\ Len(console) = 3
    /\ console[1].raw < console[2].raw
    /\ console[2].raw < console[3].raw
    /\ adjusted_bricks = console[3].raw

\* C5: as long as no write failed, the rows appended by this run are the
\* readings with every run of equal readings reduced to one: as many rows as
\* runs, and no two neighbouring rows with the same raw value.
C5_OneRowPerRun ==
    /\ pc_l \in BetweenIterations \cup {"reconcile"}
           => SessionRowRaws = Compress(ConsoleRaws)
    /\ pc_l \in AfterReconcile
           => SessionRowRaws = Compress(SubSeq(ConsoleRaws, 1, Len(console) - 1))
    /\ \A i \in 1..(Len(SessionRows) - 1) : SessionRows[i].raw /= SessionRows[i + 1].raw

\* a reading, the same reading again, another one: two rows
C5_Witness ==
    /\ pc_l = "wait"
    /\ Len(console) = 3
    /\ console[1].raw = console[2].raw
    /\ console[2].raw /= console[3].raw
    /\ Len(SessionRows) = 2

\* C6: a fetch that fails leaves the reconciler fields, the plot buffers,
\* the buckets, previous_logged_bricks and the log file as they were, and the
\* logging thread goes to the wait of that iteration, from which the loop
\* goes on.
C6_FailedFetchChangesNothing ==
    [][(pc_l = "fetch" /\ pc_l' /= "fetch" /\ ~response'.ok)
          => /\ UNCHANGED <<previous_raw, offset, adjusted_bricks, reset_count,
                            timestamps, bricks_cut_values, bricks_cut_per_hour,
                            bricks_per_5min, previous_logged_bricks, csv, console>>
             /\ raw' = None
             /\ pc_l' = "wait"]_vars

\* a fetch failed after a reading was stored and logged, and the thread waits
C6_Witness ==
    /\ pc_l = "wait"
    /\ ~response.ok
    /\ raw = None
    /\ Len(bricks_cut_values) = 1
    /\ Len(SessionRows) = 1
    /\ status = <<"connection_error">>

\* C7: a failure of the log append does not stop the Poller: the logging
\* thread is never ended by it.
C7_LogFailureKeepsPolling == pc_l /= "crashed"

\* the bucket label of a stored "%H:%M:%S" string
LabelOfTimeStr(ts) == <<ts[1], ts[2] - (ts[2] % 5)>>

\* the buckets after the first k appends
RECURSIVE BucketsAfter(_)
BucketsAfter(k) ==
    IF k = 0 THEN <<>>
    ELSE BucketPut(BucketsAfter(k - 1), LabelOfTimeStr(timestamps[k]),
                   bricks_cut_values[k])

\* what update_plots holds of the buckets while it draws
BarView == [i \in 1..Len(bar_data) |-> [key |-> bar_labels[i], vals |-> Deref(bar_data[i])]]

\* C8: what update_plots draws from is the store after some whole number k
\* of appends: the last MAX_POINTS of the first k values, of the first k rate
\* samples, and the last MAX_BARS buckets as they were after k appends.
C8_SnapshotIsWholeAppends ==
    pc_g = "draw"
        => \E k \in 0..Len(bricks_cut_per_hour) :
              /\ y1 = LastN(SubSeq(bricks_cut_values, 1, k), MAX_POINTS)
              /\ y2 = LastN(SubSeq(bricks_cut_per_hour, 1, k), MAX_POINTS)
              /\ BarView = LastN(BucketsAfter(k), MAX_BARS)

\* C9: the two threads are never both inside their data_lock blocks, the
\* lock is held exactly while its holder is inside its block, and so it is
\* free of the Tk thread while update_plots draws or has returned.
C9_LockDiscipline ==
    /\ ~(pc_l \in LoggerCS /\ pc_g \in GuiCS)
    /\ data_lock = "logger" <=> pc_l \in LoggerCS
    /\ data_lock = "gui" <=> pc_g \in GuiCS
    /\ pc_g \in {"draw", "idle"} => data_lock /= "gui"
    /\ (pc_g = "draw" /\ pc_l = "acquire") => LockFree(data_lock)

\* the logging thread is appending while update_plots draws
C9_Witness ==
    /\ pc_g = "draw"
    /\ pc_l = "append_rate"
    /\ data_lock = "logger"

\* every stored entry went through all the steps of its iteration
IterationsComplete ==
    /\ Len(timestamps) = Len(console)
    /\ Len(bricks_cut_values) = Len(console)
    /\ Len(bricks_cut_per_hour) = Len(console)
    /\ BucketsAfter(Len(console)) = bricks_per_5min
    /\ previous_logged_bricks = previous_raw
    /\ SessionRowRaws = Compress(ConsoleRaws)
    /\ data_lock /= "logger"

\* C10: once stop_event is set it stays set and the loop test starts no
\* further iteration; the steps of an iteration never look at the event, so
\* when the loop has been left every stored entry is complete.
C10_StopStartsNoIteration ==
    /\ [][stop_event => stop_event']_vars
    /\ [][(stop_event /\ pc_l \in {"check", "wait", "exit", "done"})
             => pc_l' \in {"check", "wait", "exit", "done"}]_vars
    /\ [](pc_l \in {"exit", "done"} => stop_event /\ IterationsComplete)

\* the event was set while an iteration had its row still to write
C10_Witness ==
    /\ stop_event
    /\ pc_l = "log"
    /\ Len(console) = 2
    /\ ShouldLog(previous_logged_bricks, raw[1])

\* C11: on the window-close path root.destroy() has run only when the
\* logging thread has ended: it can write no row and set no status any more.
C11_DestroyAfterLoggerExit ==
    root_destroyed
        => /\ pc_l \in {"done", "crashed"}
           /\ data_lock = "free"
           /\ stop_event

\* the window is gone after the logger left its loop with data stored
C11_Witness ==
    /\ root_destroyed
    /\ pc_l = "done"
    /\ Len(SessionRows) = 2
    /\ status = <<"logger_stopped">>

\* C12: with both threads running and every fetch returning, a stop request
\* leads to the end of the logging thread and to the window being destroyed,
\* wherever in its loop the logging thread was.
C12_StopLeadsToClose ==
    /\ stop_event ~> pc_l \in {"done", "crashed"}
    /\ stop_event ~> root_destroyed

\* the close timer is queued again while the logging thread is in its append
C12_Witness ==
    /\ stop_event
    /\ pc_l = "append_bucket"
    /\ close_poll_pending = 1
    /\ pc_g = "idle"

\* a step that is a further close of the window after the stop was signalled
CloseAgain == OnClose /\ stop_event

\* C13 as stated: a further close of the window changes no state at all.
C13_CloseAgainChangesNothing == [][CloseAgain => UNCHANGED vars]_vars

\* C13: a further close of the window changes nothing but the status
\* message; once the stop is signalled initiate_shutdown's body is not
\* entered again, at most one close timer is ever queued, and after
\* root.destroy() the Tk thread does nothing more.
C13_StopIsIdempotent ==
    /\ [][CloseAgain
             => UNCHANGED <<previous_logged_bricks, reconcilerVars, storeVars,
                            stop_event, data_lock, clock, response, fileVars,
                            console, shutdownVars, loggerLocals, polls, pc_l,
                            pc_g, guiLocals>>]_vars
    /\ [][(stop_event /\ pc_g /= "stop_animation") => pc_g' /= "stop_animation"]_vars
    /\ [](close_poll_pending <= 1)
    /\ [][root_destroyed
             => /\ root_destroyed'
                /\ UNCHANGED <<pc_g, close_poll_pending, ani_running, stop_event>>]_vars

\* the window is closed again while the close timer is queued
C13_Witness ==
    /\ stop_event
    /\ pc_g = "idle"
    /\ close_poll_pending = 1
    /\ status = <<"shutting_down">>
    /\ pc_l = "done"

\* a is the beginning of b
IsPrefix(a, b) == Len(a) <= Len(b) /\ SubSeq(b, 1, Len(a)) = a

\* the last n elements of s, or all of s when it has fewer
Suffix(s, n) ==
    LET m == IF n < Len(s) THEN n ELSE Len(s)
    IN [i \in 1..m |-> s[Len(s) - m + i]]

\* C14: every step keeps what the values list, the rate list, the timestamps
\* and every bucket's list held as the beginning of what they hold after it,
\* and keeps every bucket key at its place; the steps of update_plots change
\* none of them, and a [-n:] slice is a copy of the end of the list.
C14_StoreAppendOnly ==
    /\ [][/\ IsPrefix(timestamps, timestamps')
          /\ IsPrefix(bricks_cut_values, bricks_cut_values')
          /\ IsPrefix(bricks_cut_per_hour, bricks_cut_per_hour')
          /\ Len(bricks_per_5min) <= Len(bricks_per_5min')
          /\ \A i \in 1..Len(bricks_per_5min) :
                /\ bricks_per_5min'[i].key = bricks_per_5min[i].key
                /\ IsPrefix(bricks_per_5min[i].vals, bricks_per_5min'[i].vals)
          /\ pc_g' /= pc_g => UNCHANGED storeVars]_vars
    /\ [](\A n \in 1..(Len(bricks_cut_values) + 1) :
             LastN(bricks_cut_values, n) = Suffix(bricks_cut_values, n))

\* update_plots holds its copies of three stored readings, two of them in
\* one bucket
C14_Witness ==
    /\ pc_g = "draw"
    /\ Len(y1) = 3
    /\ Len(bricks_per_5min) = 2
    /\ Len(bricks_per_5min[1].vals) = 2

\* C15: the first rate sample is 0 and every later one is the difference of
\* its adjusted value and the one before, times 60, whatever the readings
\* and wherever fetches failed; the adjusted values 100, 105 give 0, 300.
C15_RateIsDeltaTimes60 ==
    /\ Len(bricks_cut_per_hour) <= Len(bricks_cut_values)
    /\ \A i \in 1..Len(bricks_cut_per_hour) :
          bricks_cut_per_hour[i] =
              IF i = 1 THEN 0
              ELSE (bricks_cut_values[i] - bricks_cut_values[i - 1]) * 60
    /\ RateSample(<<100>>) = 0
    /\ RateSample(<<100, 105>>) = 300

\* a reading, a failed fetch, a lower reading: the rate after the reset
C15_Witness ==
    /\ Len(bricks_cut_per_hour) = 2
    /\ polls = 3
    /\ console[2].event = "RESET_DETECTED"
    /\ bricks_cut_per_hour[2] = 60

\* C16: every row is in the file named for the day of its timestamp.
C16_RowInFileOfItsDay ==
    \A i \in 1..Len(SessionRows) : SessionRows[i].timestamp[1] = csv_day

\* a row of the file is the header row
IsHeader(row) == row.event = Header.event

\* C17: over the starts and polls of a day the file of the day begins with
\* the header and holds no other header row, and every step on that file
\* keeps its rows as the beginning of its new contents.
C17_OneHeaderFirst ==
    /\ [](/\ Len(csv) >= 1
          /\ IsHeader(csv[1])
          /\ \A i \in 2..Len(csv) : ~IsHeader(csv[i]))
    /\ [][csv_day' = csv_day => IsPrefix(csv, csv')]_vars

\* the program was started again on a file that holds rows of two runs
C17_Witness ==
    /\ Len(console) = 1
    /\ pc_l = "wait"
    /\ Len(csv) = 3
    /\ ~IsHeader(csv[2])
    /\ csv[2] /= PriorRow
    /\ csv[3].raw = console[1].raw

\* the 5-minute interval of a full timestamp: the day, the hour and the
\* minute's multiple of 5
IntervalOf(dts) == <<dts[1], dts[2], dts[3] \div 5>>

\* the adjusted values of the rows stamped within one 5-minute interval
RECURSIVE ValuesWithin(_, _)
ValuesWithin(rows, interval) ==
    IF rows = <<>> THEN <<>>
    ELSE LET rest == ValuesWithin(SubSeq(rows, 1, Len(rows) - 1), interval)
             last == rows[Len(rows)]
         IN  IF IntervalOf(last.timestamp) = interval
             THEN Append(rest, last.adjusted) ELSE rest

\* C18: when every reading of the session has its row (so the rows carry the
\* full time of each stored value), each bucket holds, in arrival order, the
\* values of exactly one 5-minute interval, the one its label names.
C18_BucketHoldsOneInterval ==
    (pc_l \in BetweenIterations /\ Len(SessionRows) = Len(bricks_cut_values))
        => \A b \in 1..Len(bricks_per_5min) :
              \E i \in 1..Len(SessionRows) :
                 /\ bricks_per_5min[b].key
                      = <<SessionRows[i].timestamp[2],
                          5 * (SessionRows[i].timestamp[3] \div 5)>>
                 /\ bricks_per_5min[b].vals
                      = ValuesWithin(SessionRows, IntervalOf(SessionRows[i].timestamp))

\* the raw and adjusted counts of the entries that carry RESET_DETECTED
RECURSIVE ResetsOf(_)
ResetsOf(entries) ==
    IF entries = <<>> THEN <<>>
    ELSE LET rest == ResetsOf(SubSeq(entries, 1, Len(entries) - 1))
             last == entries[Len(entries)]
         IN  IF last.event = "RESET_DETECTED"
             THEN Append(rest, <<last.raw, last.adjusted>>) ELSE rest

\* C19: as long as no log write has failed, between iterations
\* previous_logged_bricks equals previous_raw, and the iterations whose event
\* is RESET_DETECTED are, one for one and in order, the rows that carry that
\* event; while such an iteration is at the log step the row is due.
C19_ResetAlwaysLogged ==
    pc_l /= "crashed"
        => /\ pc_l \in BetweenIterations
                => /\ previous_logged_bricks = previous_raw
                   /\ ResetsOf(SessionRows) = ResetsOf(console)
           /\ (pc_l = "log" /\ event = "RESET_DETECTED")
                => ShouldLog(previous_logged_bricks, raw[1])

\* an iteration that detected a reset has written its row and waits
C19_Witness ==
    /\ pc_l = "wait"
    /\ event = "RESET_DETECTED"
    /\ Len(SessionRows) = 2
    /\ SessionRows[2].event = "RESET_DETECTED"
    /\ SessionRows[2].raw < SessionRows[1].raw
    /\ previous_logged_bricks = Some(SessionRows[2].raw)

\* the number of values over all buckets
RECURSIVE BucketTotal(_)
BucketTotal(d) ==
    IF d = <<>> THEN 0
    ELSE BucketTotal(SubSeq(d, 1, Len(d) - 1)) + Len(d[Len(d)].vals)

\* the successful fetches whose reading is in the store: each one printed
\* its console line, and the one at the lock's door is still to be stored
FetchesStored == Len(console) - (IF pc_l = "acquire" THEN 1 ELSE 0)

\* the four containers hold one entry per stored reading
StoreInStep ==
    /\ Len(timestamps) = FetchesStored
    /\ Len(bricks_cut_values) = FetchesStored
    /\ Len(bricks_cut_per_hour) = FetchesStored
    /\ BucketTotal(bricks_per_5min) = FetchesStored

\* C20 as stated: whenever the logging thread does not hold data_lock the
\* four containers are in step and the last stored value is adjusted_bricks.
C20_LastValueIsAdjusted ==
    data_lock /= "logger"
        => /\ StoreInStep
           /\ bricks_cut_values /= <<>>
                => bricks_cut_values[Len(bricks_cut_values)] = adjusted_bricks

\* C20 amended: whenever the logging thread does not hold data_lock the four
\* containers are in step; the last stored value is adjusted_bricks except
\* while the thread stands between line 153 and the lock, where
\* adjusted_bricks is already the value about to be stored, offset + raw,
\* and not below the last stored one.
C20_InStepOutsideLock ==
    data_lock /= "logger"
        => /\ StoreInStep
           /\ (bricks_cut_values /= <<>> /\ pc_l /= "acquire")
                => bricks_cut_values[Len(bricks_cut_values)] = adjusted_bricks
           /\ pc_l = "acquire"
                => /\ adjusted_bricks = offset + raw[1]
                   /\ bricks_cut_values /= <<>>
                        => bricks_cut_values[Len(bricks_cut_values)] <= adjusted_bricks

\* the thread has a new adjusted value and waits for the lock the plot holds
C20_Witness ==
    /\ pc_l = "acquire"
    /\ data_lock = "gui"
    /\ Len(bricks_cut_values) = 2
    /\ BucketTotal(bricks_per_5min) = 2
    /\ bricks_cut_values[2] < adjusted_bricks

\* a is b with some of its entries left out
RECURSIVE IsSubseq(_, _)
IsSubseq(a, b) ==
    IF a = <<>> THEN TRUE
    ELSE IF b = <<>> THEN FALSE
    ELSE IF a[Len(a)] = b[Len(b)]
         THEN IsSubseq(SubSeq(a, 1, Len(a) - 1), SubSeq(b, 1, Len(b) - 1))
         ELSE IsSubseq(a, SubSeq(b, 1, Len(b) - 1))

\* the adjusted column of the rows of the session
SessionRowAdjusted == [i \in 1..Len(SessionRows) |-> SessionRows[i].adjusted]

\* C21: a row written in an iteration carries the adjusted value that the
\* iteration appended to bricks_cut_values, which is offset + the row's raw
\* count; so the adjusted column of the session's rows is a subsequence of
\* bricks_cut_values and never decreases from row to row.
C21_LogFollowsSeries ==
    /\ [][Len(csv') > Len(csv)
            => /\ Len(csv') = Len(csv) + 1
               /\ bricks_cut_values /= <<>>
               /\ csv'[Len(csv')].adjusted = bricks_cut_values[Len(bricks_cut_values)]
               /\ csv'[Len(csv')].adjusted = offset + csv'[Len(csv')].raw
               /\ UNCHANGED <<bricks_cut_values, offset>>]_vars
    /\ [](/\ IsSubseq(SessionRowAdjusted, bricks_cut_values)
          /\ \A i \in 2..Len(SessionRows) :
                SessionRows[i - 1].adjusted <= SessionRows[i].adjusted)

\* three readings stored, the second not logged, the third a reset whose row
\* carries more than its raw count
C21_Witness ==
    /\ Len(bricks_cut_values) = 3
    /\ Len(SessionRows) = 2
    /\ SessionRows[2].adjusted > SessionRows[2].raw
    /\ SessionRows[2].adjusted = bricks_cut_values[3]
    /\ SessionRows[1].adjusted = bricks_cut_values[1]

\* C22: every stored rate-per-hour sample, and every sample update_plots
\* copied for the chart, is zero or more, whatever the raw readings and
\* wherever they fell.
C22_RateNonNegative ==
    /\ \A i \in 1..Len(bricks_cut_per_hour) : bricks_cut_per_hour[i] >= 0
    /\ \A i \in 1..Len(y2) : y2[i] >= 0

\* the count fell to zero and rose again; the chart holds the three samples
C22_Witness ==
    /\ pc_g = "draw"
    /\ Len(y2) = 3
    /\ Len(console) = 3
    /\ console[2].event = "RESET_DETECTED"
    /\ console[2].raw = 0
    /\ y2[2] = 0
    /\ y2[3] > 0

\* C23: in the phase 2 plotter the two lists have the same length, never
\* more than 60; a frame whose fetch fails leaves both as they were; a
\* reading that arrives below length 60 is appended to both and nothing is
\* dropped; a reading that arrives at length 60 drops the first entry of
\* both and the others keep their order, followed by the new one.
C23_WindowOfSixty ==
    /\ [](/\ Len(timestamps) = Len(bricks_cut_values)
          /\ Len(timestamps) <= 60)
    /\ [][polls' /= polls
            => IF ~response'.ok
               THEN UNCHANGED <<timestamps, bricks_cut_values>>
               ELSE LET old == IF Len(timestamps) = 60 THEN 1 ELSE 0
                    IN  /\ timestamps'
                             = Append(SubSeq(timestamps, old + 1, Len(timestamps)),
                                      TimeStr(clock))
                        /\ bricks_cut_values'
                             = Append(SubSeq(bricks_cut_values, old + 1,
                                             Len(bricks_cut_values)),
                                      response'.value)]_vars

\* 62 frames, one of them failed: the 61st reading pushed the first out
C23_Witness ==
    /\ polls = 62
    /\ Len(bricks_cut_values) = 60
    /\ timestamps[1] = TimeStr(StartClock)
    /\ timestamps[60] = TimeStr(StartClock + 1)
    /\ bricks_cut_values[1] = 0
    /\ bricks_cut_values[2] = 1
    /\ bricks_cut_values[60] = 2
    /\ ~response.ok

====
